---- MODULE Spec2Model ----
(***************************************************************************)
(* Model of server_optimizado.js: the ticket ("turno") service.  The table *)
(* turnos lives in PostgreSQL; a handler can be interleaved with other    *)
(* handlers at each await, and the INSERT with other statements between    *)
(* its start, the drawing of its id and its commit.                        *)
(***************************************************************************)
EXTENDS Integers, Sequences, FiniteSets

\* ---------------------------------------------------------------- bounds
MaxSerial == 2          \* INSERTs tried in an interleaved execution
MaxSerialSeq == 4       \* INSERTs tried in a non-interleaved execution
MaxSerialLive == 2      \* INSERTs started when queries may fail
MaxSerialOverlap == 3   \* INSERTs started when INSERTs may overlap

Clients == {1, 2}                   \* slots for the POST /turno requests in flight
UserIds == {"u1", "u2"}
\* The nombre and solicitud a request may carry, as pairs.
Datos == {<<"Ann", "Q1">>, <<"Bob", "Q2">>}
\* :id values tried when max ids can be assigned: one of them is never assigned.
ParamIds(max) == 1..(max + 1)

\* Request bodies: express.json() yields an object in which a key may be absent
\* (undefined after destructuring) or hold the empty string.
PostBody(id_usuario, d) ==
    [id_usuario |-> id_usuario, nombre |-> d[1], solicitud |-> d[2]]

PutBody(d) == [nombre |-> d[1], solicitud |-> d[2]]

\* body with key k removed ("absent") or set to the empty string ("empty").
Damaged(body, k, how) ==
    [j \in DOMAIN body \ (IF how = "absent" THEN {k} ELSE {}) |->
        IF j = k THEN "" ELSE body[j]]

\* The bodies themselves, the damaged ones (one field of a body that carries
\* the data d absent or empty), and {}.
WithDamaged(bodies, d) ==
    bodies \cup {[k \in {} |-> ""]}
           \cup UNION {{Damaged(b, k, how) : k \in DOMAIN b, how \in {"absent", "empty"}} :
                        b \in {x \in bodies : x.nombre = d[1]}}

PostBodies == WithDamaged({PostBody(u, d) : u \in UserIds, d \in Datos}, <<"Ann", "Q1">>)
PutBodies == WithDamaged({PutBody(d) : d \in Datos}, <<"Ann", "Q1">>)

\* Three users, for executions in which nothing is deleted.
UserIdsDense == {"u1", "u2", "u3"}
PostBodiesDense ==
    WithDamaged({PostBody(u, d) : u \in UserIdsDense, d \in Datos}, <<"Ann", "Q1">>)

NoBody == [k \in {} |-> ""]

\* Mutant: only a missing field is refused, the empty string passes.
Falsy_OnlyUndefined(body, k) == k \notin DOMAIN body

\* !x of JavaScript for a destructured body field: undefined and "" are falsy.
Falsy(body, k) == k \notin DOMAIN body \/ body[k] = ""

\* ------------------------------------------------------ string conversions
DigitChars == <<"0", "1", "2", "3", "4", "5", "6", "7", "8", "9">>

DigitValue(ch) == CHOOSE d \in 0..9 : DigitChars[d + 1] = ch

RECURSIVE StringOf(_)
\* String(n) for n >= 0: the decimal digits, most significant first.
StringOf(n) ==
    IF n < 10 THEN <<DigitChars[n + 1]>>
    ELSE StringOf(n \div 10) \o <<DigitChars[(n % 10) + 1]>>

RECURSIVE ParseDigits(_, _)
ParseDigits(s, acc) ==
    IF s = <<>> \/ Head(s) \notin {DigitChars[i] : i \in 1..10} THEN acc
    ELSE ParseDigits(Tail(s), 10 * acc + DigitValue(Head(s)))

\* parseInt(s) on a string of decimal digits (stops at the first non-digit).
ParseInt(s) == ParseDigits(s, 0)

RECURSIVE PadEnd(_, _, _)
\* Mutant: padEnd, the padding goes on the right.
PadEnd(s, targetLength, padCh) ==
    IF Len(s) >= targetLength THEN s
    ELSE PadEnd(s \o <<padCh>>, targetLength, padCh)

RECURSIVE PadStart(_, _, _)
\* s.padStart(targetLength, padCh): pads on the left, never truncates.
PadStart(s, targetLength, padCh) ==
    IF Len(s) >= targetLength THEN s
    ELSE PadStart(<<padCh>> \o s, targetLength, padCh)

PadWidth == 4

\* Mutant: the count itself is formatted, not the count plus one.
TicketLabel_OffByOne(total) == <<"T", "-">> \o PadStart(StringOf(total), PadWidth, "0")

\* `T-${String(total + 1).padStart(4, '0')}`
TicketLabel(total) == <<"T", "-">> \o PadStart(StringOf(total + 1), PadWidth, "0")

\* ------------------------------------------------------------------ state
VARIABLES
    turnos,       \* rows of table turnos
    serial,       \* last value handed out by the SERIAL sequence of turnos.id
    now,          \* database clock, what NOW() yields in the next INSERT
    pc,           \* per client: where its POST /turno handler is suspended
    reqBody,      \* per client: req.body of the POST /turno in flight
    nuevoTicket,  \* per client: local nuevoTicket of the POST /turno in flight
    res,          \* the response the step just taken has sent, if any
    tx,           \* per client: NOW() and id of the INSERT statement in progress
    overlapped    \* history: an INSERT was started while another was in progress

vars == <<turnos, serial, now, pc, reqBody, nuevoTicket, res, tx, overlapped>>

NoTicket == <<>>

NoTime == -1
NoId == 0
NoTx == [fecha |-> NoTime, id |-> NoId]

Response(method, status, rows, mensaje) ==
    [method |-> method, status |-> status, rows |-> rows, mensaje |-> mensaje]

NoResponse == Response("", 0, <<>>, "")

Init ==
    /\ turnos = {}
    /\ serial = 0
    /\ now = 0
    /\ pc = [c \in Clients |-> "idle"]
    /\ reqBody = [c \in Clients |-> NoBody]
    /\ nuevoTicket = [c \in Clients |-> NoTicket]
    /\ res = NoResponse
    /\ tx = [c \in Clients |-> NoTx]
    /\ overlapped = FALSE

\* ------------------------------------------------------------ the queries
\* SELECT COUNT(*) as total FROM turnos: pg returns the bigint as a string.
CountTotal == StringOf(Cardinality(turnos))

\* generarTicket(): the count is read, parsed and formatted.
generarTicket == TicketLabel(ParseInt(CountTotal))

\* Mutant: the lookup compares the wrong column.
SelectByUsuario_WrongColumn(id_usuario) == {t \in turnos : t.nombre = id_usuario}

\* SELECT * FROM turnos WHERE id_usuario = $1
SelectByUsuario(id_usuario) == {t \in turnos : t.id_usuario = id_usuario}

\* SELECT * FROM turnos WHERE id = $1
SelectById(id) == {t \in turnos : t.id = id}

\* Mutant: the column is not declared UNIQUE.
UniqueViolation_NoConstraint(id_usuario) == FALSE

\* The UNIQUE constraint on id_usuario rejects the INSERT.
UniqueViolation(id_usuario) == \E t \in turnos : t.id_usuario = id_usuario

\* Mutant: the label is computed again by the INSERT, from the count it sees.
NewRow_LabelAtInsert(id_usuario, nombre, solicitud, ticket) ==
    [id |-> serial + 1, id_usuario |-> id_usuario, nombre |-> nombre,
     solicitud |-> solicitud, ticket |-> generarTicket, fecha |-> now]

\* Mutant: the id is taken from the count, as the label is, not from the sequence.
NewRow_IdFromCount(id_usuario, nombre, solicitud, ticket) ==
    [id |-> Cardinality(turnos) + 1, id_usuario |-> id_usuario, nombre |-> nombre,
     solicitud |-> solicitud, ticket |-> ticket, fecha |-> now]

\* The row INSERT ... VALUES ($1, $2, $3, $4, NOW()) RETURNING * builds.
NewRow(id_usuario, nombre, solicitud, ticket) ==
    [id |-> serial + 1, id_usuario |-> id_usuario, nombre |-> nombre,
     solicitud |-> solicitud, ticket |-> ticket, fecha |-> now]

\* Mutant: the UPDATE also sets fecha = NOW().
UpdatedRow_SetsFecha(t, nombre, solicitud) ==
    [t EXCEPT !.nombre = nombre, !.solicitud = solicitud, !.fecha = now]

\* UPDATE turnos SET nombre = $1, solicitud = $2 WHERE id = $3
UpdatedRow(t, nombre, solicitud) ==
    [t EXCEPT !.nombre = nombre, !.solicitud = solicitud]

\* Mutant: the UPDATE has no WHERE clause.
UpdateTurnos_NoWhere(id, nombre, solicitud) ==
    {UpdatedRow(t, nombre, solicitud) : t \in turnos}

UpdateTurnos(id, nombre, solicitud) ==
    {IF t.id = id THEN UpdatedRow(t, nombre, solicitud) ELSE t : t \in turnos}

RECURSIVE OrderByIdAsc(_)
\* Mutant: ORDER BY id, ascending.
OrderByIdAsc(rows) ==
    IF rows = {} THEN <<>>
    ELSE LET first == CHOOSE t \in rows : \A u \in rows : u.id >= t.id
         IN <<first>> \o OrderByIdAsc(rows \ {first})

RECURSIVE OrderByIdDesc(_)
\* ORDER BY id DESC: the row with the greatest id first, then the rest.
OrderByIdDesc(rows) ==
    IF rows = {} THEN <<>>
    ELSE LET first == CHOOSE t \in rows : \A u \in rows : u.id <= t.id
         IN <<first>> \o OrderByIdDesc(rows \ {first})

\* Mutant: the DELETE has no WHERE clause.
DeleteTurnos_NoWhere(id) == {}

\* DELETE FROM turnos WHERE id = $1
DeleteTurnos(id) == {t \in turnos : t.id # id}

\* The JSON body of POST /turno on success.
TurnoJson(turno) ==
    [ticket |-> turno.ticket, nombre |-> turno.nombre,
     solicitud |-> turno.solicitud, fecha |-> turno.fecha,
     pdf_url |-> <<"/turno/", turno.id, "/pdf">>]

\* ------------------------------------------------------------ POST /turno
\* Mutant: solicitud is not checked.
PostInvalid_NoSolicitud(body) == Falsy(body, "id_usuario") \/ Falsy(body, "nombre")

PostInvalid(body) ==
    Falsy(body, "id_usuario") \/ Falsy(body, "nombre") \/ Falsy(body, "solicitud")

\* Lines 56-70: validation, then the lookup query is issued.
PostTurno(c, body) ==
    /\ pc[c] = "idle"
    /\ IF PostInvalid(body)
       THEN /\ res' = Response("POST", 400, <<>>, "Faltan datos requeridos")
            /\ UNCHANGED <<pc, reqBody>>
       ELSE /\ pc' = [pc EXCEPT ![c] = "existente"]
            /\ reqBody' = [reqBody EXCEPT ![c] = body]
            /\ res' = NoResponse
    /\ UNCHANGED <<turnos, serial, now, nuevoTicket, tx, overlapped>>

Finish(c) ==
    /\ pc' = [pc EXCEPT ![c] = "idle"]
    /\ reqBody' = [reqBody EXCEPT ![c] = NoBody]
    /\ nuevoTicket' = [nuevoTicket EXCEPT ![c] = NoTicket]
    /\ tx' = [tx EXCEPT ![c] = NoTx]
    /\ UNCHANGED overlapped

\* Lines 67-85: the lookup runs; a hit is answered, a miss goes on to generarTicket.
PostExistente(c) ==
    /\ pc[c] = "existente"
    /\ LET rows == SelectByUsuario(reqBody[c].id_usuario) IN
       IF rows # {}
       THEN /\ res' = Response("POST", 200,
                               <<TurnoJson(CHOOSE t \in rows : TRUE)>>, "Ya tienes un turno asignado")
            /\ Finish(c)
       ELSE /\ pc' = [pc EXCEPT ![c] = "generarTicket"]
            /\ res' = NoResponse
            /\ UNCHANGED <<reqBody, nuevoTicket, tx, overlapped>>
    /\ UNCHANGED <<turnos, serial, now>>

\* Lines 22-26, 85: the count query of generarTicket runs.
PostGenerarTicket(c) ==
    /\ pc[c] = "generarTicket"
    /\ nuevoTicket' = [nuevoTicket EXCEPT ![c] = generarTicket]
    /\ pc' = [pc EXCEPT ![c] = "insert"]
    /\ res' = NoResponse
    /\ UNCHANGED <<turnos, serial, now, reqBody, tx, overlapped>>

\* Lines 86-107, when no other statement is in flight: the INSERT runs; a row
\* is answered, a rejected INSERT throws into the catch block.  nextval of the
\* sequence is consumed either way, and NOW() of the next INSERT is later than
\* this one's.
PostInsert(c) ==
    /\ pc[c] = "insert"
    /\ serial' = serial + 1
    /\ LET b == reqBody[c]
           turno == NewRow(b.id_usuario, b.nombre, b.solicitud, nuevoTicket[c])
       IN IF UniqueViolation(b.id_usuario)
          THEN /\ res' = Response("POST", 500, <<>>, "Error al procesar el turno")
               /\ UNCHANGED turnos
          ELSE /\ turnos' = turnos \cup {turno}
               /\ res' = Response("POST", 200, <<TurnoJson(turno)>>,
                                  "Turno asignado correctamente")
    /\ Finish(c)
    /\ now' = now + 1

\* The INSERT of line 86 as the database runs it, in three moments between
\* which statements of other handlers, other INSERTs included, can run: the
\* statement starts (NOW() is the start time of its transaction), it draws the
\* id from the sequence (nextval is not undone by a rejection), and it commits
\* (the row becomes visible) or is rejected.
InsertStages == {"insert", "inserting", "drawn"}

\* Line 86: the database starts the INSERT; NOW() is fixed.
PostInsertBegin(c) ==
    /\ pc[c] = "insert"
    /\ pc' = [pc EXCEPT ![c] = "inserting"]
    /\ tx' = [tx EXCEPT ![c].fecha = now]
    /\ now' = now + 1
    /\ overlapped' = (overlapped \/ \E d \in Clients \ {c} : pc[d] \in {"inserting", "drawn"})
    /\ res' = NoResponse
    /\ UNCHANGED <<turnos, serial, reqBody, nuevoTicket>>

\* Line 86: the INSERT draws the id of its row from the sequence.
PostInsertNextval(c) ==
    /\ pc[c] = "inserting"
    /\ pc' = [pc EXCEPT ![c] = "drawn"]
    /\ serial' = serial + 1
    /\ tx' = [tx EXCEPT ![c].id =
                 NewRow(reqBody[c].id_usuario, reqBody[c].nombre,
                        reqBody[c].solicitud, nuevoTicket[c]).id]
    /\ res' = NoResponse
    /\ UNCHANGED <<turnos, now, reqBody, nuevoTicket, overlapped>>

\* The row the INSERT of c stores: the id it drew, the NOW() it started with.
InsertedRow(c) ==
    [NewRow(reqBody[c].id_usuario, reqBody[c].nombre, reqBody[c].solicitud, nuevoTicket[c])
        EXCEPT !.id = tx[c].id, !.fecha = tx[c].fecha]

\* Lines 86-107: the INSERT commits and the row is answered, or it is rejected
\* by the UNIQUE constraint and the catch block answers.
PostInsertCommit(c) ==
    /\ pc[c] = "drawn"
    /\ IF UniqueViolation(reqBody[c].id_usuario)
       THEN /\ res' = Response("POST", 500, <<>>, "Error al procesar el turno")
            /\ UNCHANGED turnos
       ELSE /\ turnos' = turnos \cup {InsertedRow(c)}
            /\ res' = Response("POST", 200, <<TurnoJson(InsertedRow(c))>>,
                               "Turno asignado correctamente")
    /\ Finish(c)
    /\ UNCHANGED <<serial, now>>

\* Mutant: the rejection is not caught, the handler ends without a response.
PostQueryFails_NoCatch(c) ==
    /\ pc[c] \in {"existente", "generarTicket"} \cup InsertStages
    /\ res' = NoResponse
    /\ Finish(c)
    /\ UNCHANGED <<turnos, serial, now>>

\* What an INSERT that has drawn its id and whose promise rejects has done to
\* the table: nothing (it failed), or the row stored (it committed and its
\* result never arrived).
RejectedInsert(c) ==
    \/ UNCHANGED turnos
    \/ /\ ~UniqueViolation(reqBody[c].id_usuario)
       /\ turnos' = turnos \cup {InsertedRow(c)}

\* Lines 67, 23, 86 and 102-107: the pool.query the handler awaits rejects; the
\* catch block answers 500.  A rejected SELECT has changed nothing, and neither
\* has an INSERT rejected before it drew its id.
PostQueryFails(c) ==
    /\ pc[c] \in {"existente", "generarTicket"} \cup InsertStages
    /\ res' = Response("POST", 500, <<>>, "Error al procesar el turno")
    /\ Finish(c)
    /\ IF pc[c] = "drawn" THEN RejectedInsert(c) ELSE UNCHANGED turnos
    /\ UNCHANGED <<serial, now>>

\* ---------------------------------------------------------- PUT /turno/:id
\* Mutant: solicitud is not checked.
PutInvalid_OnlyNombre(body) == Falsy(body, "nombre")

PutInvalid(body) == Falsy(body, "nombre") \/ Falsy(body, "solicitud")

PutTurno(id, body) ==
    /\ IF PutInvalid(body)
       THEN /\ res' = Response("PUT", 400, <<>>, "Faltan datos")
            /\ UNCHANGED turnos
       ELSE IF SelectById(id) = {}
       THEN /\ res' = Response("PUT", 404, <<>>, "Turno no encontrado")
            /\ UNCHANGED turnos
       ELSE /\ turnos' = UpdateTurnos(id, body.nombre, body.solicitud)
            /\ res' = Response("PUT", 200,
                    <<UpdatedRow(CHOOSE t \in SelectById(id) : TRUE, body.nombre, body.solicitud)>>,
                    "Turno actualizado correctamente")
    /\ UNCHANGED <<serial, now, pc, reqBody, nuevoTicket, tx, overlapped>>

\* Lines 223-226, 237-240: the UPDATE's promise rejects; the catch block answers
\* 500.  The statement was executed or not.
PutQueryFails(id, body) ==
    /\ ~PutInvalid(body)
    /\ res' = Response("PUT", 500, <<>>, "Error al actualizar turno")
    /\ \/ UNCHANGED turnos
       \/ turnos' = UpdateTurnos(id, body.nombre, body.solicitud)
    /\ UNCHANGED <<serial, now, pc, reqBody, nuevoTicket, tx, overlapped>>

\* ------------------------------------------------------- DELETE /turno/:id
DeleteTurno(id) ==
    /\ IF SelectById(id) = {}
       THEN /\ res' = Response("DELETE", 404, <<>>, "Turno no encontrado")
            /\ UNCHANGED turnos
       ELSE /\ turnos' = DeleteTurnos(id)
            /\ res' = Response("DELETE", 200,
                               <<CHOOSE t \in SelectById(id) : TRUE>>,
                               "Turno eliminado correctamente")
    /\ UNCHANGED <<serial, now, pc, reqBody, nuevoTicket, tx, overlapped>>

\* Lines 248-251, 262-265: the DELETE's promise rejects; the catch block answers
\* 500.  The statement was executed or not.
DeleteQueryFails(id) ==
    /\ res' = Response("DELETE", 500, <<>>, "Error al eliminar turno")
    /\ \/ UNCHANGED turnos
       \/ turnos' = DeleteTurnos(id)
    /\ UNCHANGED <<serial, now, pc, reqBody, nuevoTicket, tx, overlapped>>

\* ------------------------------------------------------ GET /turno/:id/pdf
\* Mutant: a receipt can be fetched once, the row is deleted after rendering.
GetPdf_Consumes(id) ==
    /\ IF SelectById(id) = {}
       THEN res' = Response("GET", 404, <<>>, "Turno no encontrado")
       ELSE res' = Response("GET", 200,
                            <<CHOOSE t \in SelectById(id) : TRUE>>, "application/pdf")
    /\ turnos' = DeleteTurnos(id)
    /\ UNCHANGED <<serial, now, pc, reqBody, nuevoTicket, tx, overlapped>>

GetPdf(id) ==
    /\ IF SelectById(id) = {}
       THEN res' = Response("GET", 404, <<>>, "Turno no encontrado")
       ELSE res' = Response("GET", 200,
                            <<CHOOSE t \in SelectById(id) : TRUE>>, "application/pdf")
    /\ UNCHANGED <<turnos, serial, now, pc, reqBody, nuevoTicket, tx, overlapped>>

\* Lines 126, 205-208: the SELECT's promise rejects; the catch block answers 500.
GetPdfQueryFails(id) ==
    /\ res' = Response("GET", 500, <<>>, "Error al generar PDF")
    /\ UNCHANGED <<turnos, serial, now, pc, reqBody, nuevoTicket, tx, overlapped>>

\* ------------------------------------------------------------ GET /turnos
GetTurnos ==
    /\ res' = Response("GET", 200, OrderByIdDesc(turnos), "application/json")
    /\ UNCHANGED <<turnos, serial, now, pc, reqBody, nuevoTicket, tx, overlapped>>

\* Lines 113, 115-118: the SELECT's promise rejects; the catch block answers 500.
GetTurnosQueryFails ==
    /\ res' = Response("GET", 500, <<>>, "Error al obtener turnos")
    /\ UNCHANGED <<turnos, serial, now, pc, reqBody, nuevoTicket, tx, overlapped>>

\* ------------------------------------------------------------ behaviours
\* INSERT statements started that have not drawn their id.
Inserting == Cardinality({c \in Clients : pc[c] = "inserting"})

\* Any interleaving of handlers at their awaits and of the statements the
\* database runs for them.
Next ==
    \/ \E c \in Clients, body \in PostBodies : PostTurno(c, body)
    \/ \E c \in Clients : PostExistente(c)
    \/ \E c \in Clients : PostGenerarTicket(c)
    \/ \E c \in Clients : serial + Inserting < MaxSerial /\ PostInsertBegin(c)
    \/ \E c \in Clients : PostInsertNextval(c)
    \/ \E c \in Clients : PostInsertCommit(c)
    \/ \E id \in ParamIds(MaxSerial), body \in PutBodies : PutTurno(id, body)
    \/ \E id \in ParamIds(MaxSerial) : DeleteTurno(id)
    \/ \E id \in ParamIds(MaxSerial) : GetPdf(id)
    \/ GetTurnos

Spec == Init /\ [][Next]_vars

\* No request is being handled.
Quiet == \A c \in Clients : pc[c] = "idle"

\* Non-interleaved executions: a request is taken only when none is in flight.
NextSeq ==
    \/ \E c \in Clients, body \in PostBodies : Quiet /\ PostTurno(c, body)
    \/ \E c \in Clients : PostExistente(c)
    \/ \E c \in Clients : PostGenerarTicket(c)
    \/ \E c \in Clients : serial < MaxSerialSeq /\ PostInsert(c)
    \/ \E id \in ParamIds(MaxSerialSeq), body \in PutBodies : Quiet /\ PutTurno(id, body)
    \/ \E id \in ParamIds(MaxSerialSeq) : Quiet /\ DeleteTurno(id)
    \/ \E id \in ParamIds(MaxSerialSeq) : Quiet /\ GetPdf(id)
    \/ Quiet /\ GetTurnos

SpecSeq == Init /\ [][NextSeq]_vars

\* Non-interleaved executions without DELETE /turno/:id, three users: every
\* INSERT follows a lookup that missed, so at most one per user is tried.
NextNoRemove ==
    \/ \E c \in Clients, body \in PostBodiesDense : Quiet /\ PostTurno(c, body)
    \/ \E c \in Clients : PostExistente(c)
    \/ \E c \in Clients : PostGenerarTicket(c)
    \/ \E c \in Clients : PostInsert(c)
    \/ \E id \in ParamIds(Cardinality(UserIdsDense)), body \in PutBodies :
            Quiet /\ PutTurno(id, body)
    \/ \E id \in ParamIds(Cardinality(UserIdsDense)) : Quiet /\ GetPdf(id)
    \/ Quiet /\ GetTurnos

SpecNoRemove == Init /\ [][NextNoRemove]_vars

\* Any interleaving of the handlers that create, delete and read rows, with
\* room for a third INSERT.  (PUT /turno/:id writes nombre and solicitud only,
\* never id or fecha.)
NextOverlap ==
    \/ \E c \in Clients, body \in PostBodies : PostTurno(c, body)
    \/ \E c \in Clients : PostExistente(c)
    \/ \E c \in Clients : PostGenerarTicket(c)
    \/ \E c \in Clients : serial + Inserting < MaxSerialOverlap /\ PostInsertBegin(c)
    \/ \E c \in Clients : PostInsertNextval(c)
    \/ \E c \in Clients : PostInsertCommit(c)
    \/ \E id \in ParamIds(MaxSerialOverlap) : DeleteTurno(id)
    \/ \E id \in ParamIds(MaxSerialOverlap) : GetPdf(id)
    \/ GetTurnos

SpecOverlap == Init /\ [][NextOverlap]_vars

\* POST /turno handlers in flight.
InFlight == Cardinality({c \in Clients : pc[c] # "idle"})

\* The step of the handler of c that the pending query's result triggers.
QueryReturns(c) ==
    \/ PostExistente(c)
    \/ PostGenerarTicket(c)
    \/ PostInsertBegin(c)
    \/ PostInsertNextval(c)
    \/ PostInsertCommit(c)
    \/ PostQueryFails(c)

\* Any interleaving, with queries that may fail.  A POST /turno is taken only
\* while the INSERTs that the requests in flight may start stay within the
\* bound (the clock counts the INSERTs started).
NextLive ==
    \/ \E c \in Clients, body \in PostBodies :
            now + InFlight < MaxSerialLive /\ PostTurno(c, body)
    \/ \E c \in Clients : PostExistente(c)
    \/ \E c \in Clients : PostGenerarTicket(c)
    \/ \E c \in Clients : PostInsertBegin(c)
    \/ \E c \in Clients : PostInsertNextval(c)
    \/ \E c \in Clients : PostInsertCommit(c)
    \/ \E c \in Clients : PostQueryFails(c)
    \/ \E id \in ParamIds(MaxSerialLive), body \in PutBodies : PutTurno(id, body)
    \/ \E id \in ParamIds(MaxSerialLive), body \in PutBodies : PutQueryFails(id, body)
    \/ \E id \in ParamIds(MaxSerialLive) : DeleteTurno(id)
    \/ \E id \in ParamIds(MaxSerialLive) : DeleteQueryFails(id)
    \/ \E id \in ParamIds(MaxSerialLive) : GetPdf(id)
    \/ \E id \in ParamIds(MaxSerialLive) : GetPdfQueryFails(id)
    \/ GetTurnos
    \/ GetTurnosQueryFails

\* Every query issued eventually returns or fails.
SpecLive ==
    /\ Init
    /\ [][NextLive]_vars
    /\ \A c \in Clients : WF_vars(QueryReturns(c))

\* ---------------------------------------------------------------- claims
\* The sequence number a label carries after "T-".
LabelNumber(ticket) == ParseInt(SubSeq(ticket, 3, Len(ticket)))

\* "T-" followed by n written with four digits, for n < 10000.
FourDigitLabel(n) ==
    <<"T", "-", DigitChars[((n \div 1000) % 10) + 1], DigitChars[((n \div 100) % 10) + 1],
      DigitChars[((n \div 10) % 10) + 1], DigitChars[(n % 10) + 1]>>

\* C1: when the lookup of a POST /turno finds a record with the requested
\* id_usuario, the response is 200 with that record's stored ticket, nombre,
\* solicitud and fecha, and the table is left as it was (same rows, same count).
C1_IdempotentReRequest ==
    [][\A c \in Clients :
          (pc[c] = "existente" /\ pc'[c] # "existente")
          => \A t \in turnos :
             t.id_usuario = reqBody[c].id_usuario
          => /\ res'.method = "POST" /\ res'.status = 200
             /\ Len(res'.rows) = 1
             /\ res'.rows[1].ticket = t.ticket
             /\ res'.rows[1].nombre = t.nombre
             /\ res'.rows[1].solicitud = t.solicitud
             /\ res'.rows[1].fecha = t.fecha
             /\ turnos' = turnos
             /\ Cardinality(turnos') = Cardinality(turnos)]_vars

\* A re-request has just been answered with the ticket the table holds.
C1_Witness ==
    /\ res.method = "POST" /\ res.status = 200
    /\ res.mensaje = "Ya tienes un turno asignado"
    /\ \E t \in turnos : t.ticket = res.rows[1].ticket /\ t.nombre = res.rows[1].nombre

\* C2: in a non-interleaved execution, the INSERT of a POST /turno for an
\* id_usuario the table does not hold adds exactly one row, whose ticket is
\* "T-" and the prior count plus one in four digits; the count grows by one.
C2_LabelOnCreation ==
    [][\A c \in Clients :
          (pc[c] = "insert" /\ pc'[c] # "insert"
                /\ \A t \in turnos : t.id_usuario # reqBody[c].id_usuario)
          => /\ Cardinality(turnos') = Cardinality(turnos) + 1
             /\ \E t \in turnos' :
                   /\ t \notin turnos
                   /\ turnos' = turnos \cup {t}
                   /\ t.id_usuario = reqBody[c].id_usuario
                   /\ t.ticket = FourDigitLabel(Cardinality(turnos) + 1)
                   /\ res'.status = 200
                   /\ res'.rows[1].ticket = t.ticket]_vars

\* A second ticket has just been created.
C2_Witness ==
    /\ res.method = "POST" /\ res.mensaje = "Turno asignado correctamente"
    /\ Cardinality(turnos) = 2
    /\ res.rows[1].ticket = <<"T", "-", "0", "0", "0", "2">>

\* C3: in a non-interleaved execution of creations, updates and removals, a
\* ticket created before another one (the smaller id) carries the strictly
\* smaller sequence number in its label.
C3_LabelsIncreasing ==
    \A a \in turnos : \A b \in turnos :
        a.id < b.id => LabelNumber(a.ticket) < LabelNumber(b.ticket)

\* C4: a POST /turno whose INSERT is rejected by the UNIQUE constraint on
\* id_usuario (it lost a race for a new id_usuario) looks the record up again
\* and answers 200 with the winner's record; no error status is sent.
C4_RaceRecovered ==
    [][\A c \in Clients :
          (pc[c] = "drawn" /\ pc'[c] # "drawn"
                /\ \E t \in turnos : t.id_usuario = reqBody[c].id_usuario)
          => /\ res'.status = 200
             /\ \E t \in turnos : /\ t.id_usuario = reqBody[c].id_usuario
                                   /\ res'.rows = <<TurnoJson(t)>>]_vars

\* C5: no two rows of the table have the same id_usuario, whatever the
\* interleaving of the handlers.
C5_UserIdUnique ==
    \A a \in turnos : \A b \in turnos : a.id_usuario = b.id_usuario => a = b

\* A POST /turno that passed the lookup has had its INSERT rejected: two
\* requests for one new id_usuario raced, and the table holds the winner's row.
C5_Witness ==
    /\ res.method = "POST" /\ res.status = 500
    /\ turnos # {}

\* C6: the table accepts a row whose label another id_usuario's row already
\* carries: an INSERT for a new id_usuario with a label computed from a stale
\* count succeeds, and the table then holds two rows with different id_usuario
\* and the same ticket.
C6_DuplicateLabelAccepted ==
    [][\A c \in Clients :
          (pc[c] = "drawn" /\ pc'[c] # "drawn"
                /\ (\A t \in turnos : t.id_usuario # reqBody[c].id_usuario)
                /\ (\E t \in turnos : t.ticket = nuevoTicket[c]))
          => /\ res'.status = 200
             /\ \E a \in turnos' : \E b \in turnos' :
                   /\ a.id_usuario # b.id_usuario
                   /\ a.ticket = b.ticket
                   /\ b.ticket = nuevoTicket[c]
                   /\ b.id_usuario = reqBody[c].id_usuario]_vars

\* Two requests for different new users have both read count 0 and both
\* inserted: two rows, different id_usuario, one label.
C6_Witness ==
    /\ res.method = "POST" /\ res.status = 200
    /\ \E a \in turnos : \E b \in turnos :
          /\ a.id_usuario # b.id_usuario
          /\ a.ticket = b.ticket
          /\ a.ticket = <<"T", "-", "0", "0", "0", "1">>
          /\ {a.id, b.id} = {1, 2}

\* C7: a successful PUT /turno/:id sets nombre and solicitud of the row with
\* that id to the values given and changes nothing else: id, id_usuario,
\* ticket and fecha of the row, every other row and the count stay as they
\* were, and the row returned is the row stored after the update.
C7_UpdateFrame ==
    [][\A id \in ParamIds(MaxSerial) : \A d \in Datos :
          (res'.method = "PUT" /\ res'.status = 200 /\ PutTurno(id, PutBody(d)))
          => \E t \in turnos :
                LET u == [id |-> t.id, id_usuario |-> t.id_usuario,
                          nombre |-> d[1], solicitud |-> d[2],
                          ticket |-> t.ticket, fecha |-> t.fecha]
                IN /\ t.id = id
                   /\ turnos' = (turnos \ {t}) \cup {u}
                   /\ Cardinality(turnos') = Cardinality(turnos)
                   /\ res'.rows = <<u>>
                   /\ u \in turnos']_vars

\* One of two stored rows has just been updated; the other keeps other data.
C7_Witness ==
    /\ res.method = "PUT" /\ res.status = 200
    /\ res.rows[1] \in turnos
    /\ \E t \in turnos : t.id # res.rows[1].id /\ t.nombre # res.rows[1].nombre

\* An INSERT has drawn this id and has not committed or been rejected yet.
Pending(id) == \E c \in Clients : pc[c] = "drawn" /\ tx[c].id = id

\* C8: a successful DELETE /turno/:id leaves no row with that id, and an id the
\* sequence has handed out that the table does not hold and no INSERT is about
\* to store (such is a deleted id) is never held again, whatever is created
\* later: GET /turno/:id/pdf, PUT /turno/:id and DELETE /turno/:id for it
\* answer 404.
C8_DeletePermanent ==
    [][/\ (res'.method = "DELETE" /\ res'.status = 200)
            => /\ res'.rows[1].id <= serial'
               /\ \A t \in turnos' : t.id # res'.rows[1].id
               /\ \A c \in Clients :
                    ~(pc'[c] = "drawn" /\ tx'[c].id = res'.rows[1].id)
       /\ \A id \in ParamIds(MaxSerial) :
            (id <= serial /\ ~Pending(id) /\ \A t \in turnos : t.id # id)
            => /\ \A t \in turnos' : t.id # id
               /\ ~Pending(id)'
               /\ res'.status = 404
                    \/ ~(\/ GetPdf(id)
                         \/ DeleteTurno(id)
                         \/ \E d \in Datos : PutTurno(id, PutBody(d)))]_vars

\* The row with id 1 was deleted, another ticket was created after it, and a
\* request by id has just been answered 404.
C8_Witness ==
    /\ res.method \in {"GET", "PUT", "DELETE"} /\ res.status = 404
    /\ serial = 2
    /\ \E t \in turnos : t.id = 2 /\ t.ticket = <<"T", "-", "0", "0", "0", "2">>
    /\ \A t \in turnos : t.id # 1
    /\ ~Pending(1)

\* A body lacks field k, or holds the empty string for it.
Missing(body, k) == k \notin DOMAIN body \/ body[k] = ""

\* C9: PUT /turno/:id answers 400 when nombre or solicitud is absent or empty,
\* whether or not a row has that id; with both given it answers 404 when no
\* row has that id; in both cases the table is left as it was.  (Each case
\* reads: the step has the outcome, or it is no PUT with such an input.)
C9_UpdateErrors ==
    [][\A id \in ParamIds(MaxSerialSeq) : \A body \in PutBodies :
          /\ (res'.status = 400 /\ turnos' = turnos)
                \/ ~(/\ Missing(body, "nombre") \/ Missing(body, "solicitud")
                     /\ PutTurno(id, body))
          /\ (res'.status = 404 /\ turnos' = turnos)
                \/ ~(/\ ~Missing(body, "nombre") /\ ~Missing(body, "solicitud")
                     /\ \A t \in turnos : t.id # id
                     /\ PutTurno(id, body))]_vars

\* An update has just been refused for its body while the table holds rows.
C9_Witness ==
    /\ res.method = "PUT" /\ res.status = 400
    /\ turnos # {}

\* C10: POST /turno answers 400 whenever id_usuario, nombre or solicitud is
\* absent or empty; the handler then issues no query (it is not suspended at
\* any of them), so table, sequence and every request in flight are untouched,
\* also when the table holds a row for that id_usuario.  (The step has this
\* outcome, or it is no POST with such a body.)
C10_CreateValidation ==
    [][\A c \in Clients : \A body \in PostBodies :
          \/ /\ res'.method = "POST" /\ res'.status = 400
             /\ UNCHANGED <<turnos, serial, now, pc, reqBody, nuevoTicket, tx, overlapped>>
          \/ ~(/\ \E k \in {"id_usuario", "nombre", "solicitud"} : Missing(body, k)
               /\ PostTurno(c, body))]_vars

\* A creation has just been refused for its body while the table holds rows.
C10_Witness ==
    /\ res.method = "POST" /\ res.status = 400
    /\ turnos # {}
    /\ \A c \in Clients : pc[c] = "idle"

\* C11: DELETE /turno/:id for an id the table holds removes exactly that row,
\* returns it as it was just before, and lowers the count by one, every other
\* row staying as it was; for an id the table does not hold it answers 404
\* and the table is left as it was.
C11_RemoveContract ==
    [][res'.method = "DELETE"
        => \A id \in ParamIds(MaxSerial) :
             DeleteTurno(id)
             => IF \E t \in turnos : t.id = id
                THEN \E t \in turnos :
                        /\ t.id = id
                        /\ res'.status = 200
                        /\ res'.rows = <<t>>
                        /\ turnos' = turnos \ {t}
                        /\ Cardinality(turnos') = Cardinality(turnos) - 1
                ELSE res'.status = 404 /\ turnos' = turnos]_vars

\* One of two rows has just been deleted and returned; the other is still there.
C11_Witness ==
    /\ res.method = "DELETE" /\ res.status = 200
    /\ res.rows[1] \notin turnos
    /\ \E t \in turnos : t.id # res.rows[1].id

\* The rows GET /turnos has just returned are the rows of the table, each once.
C12_EveryRowOnce ==
    /\ Len(res.rows) = Cardinality(turnos)
    /\ {res.rows[i] : i \in 1..Len(res.rows)} = turnos

\* C12: GET /turnos returns every row of the table exactly once, ordered by
\* strictly decreasing id, which is most recently created first (fecha
\* decreasing), also after deletions and re-creations, in every reachable state.
C12_Original ==
    (res.method = "GET" /\ res.mensaje = "application/json")
    => /\ C12_EveryRowOnce
       /\ \A i \in 1..Len(res.rows) : \A j \in 1..Len(res.rows) :
             i < j => /\ res.rows[i].id > res.rows[j].id
                      /\ res.rows[i].fecha > res.rows[j].fecha

\* C12, amended: in every reachable state GET /turnos returns every row of the
\* table exactly once, ordered by strictly decreasing id, no id above the last
\* one the sequence handed out, also after deletions and re-creations; this is
\* most recently created first (fecha decreasing) as long as no INSERT was
\* started while another was in progress.
C12_ListOrdering ==
    (res.method = "GET" /\ res.mensaje = "application/json")
    => /\ C12_EveryRowOnce
       /\ \A i \in 1..Len(res.rows) : \A j \in 1..Len(res.rows) :
             i < j => /\ res.rows[i].id > res.rows[j].id
                      /\ ~overlapped => res.rows[i].fecha > res.rows[j].fecha
       /\ \A i \in 1..Len(res.rows) : res.rows[i].id <= serial

\* Two rows have just been listed, the first of them created after a deletion
\* and later than the second; no INSERTs have overlapped.
C12_Witness ==
    /\ res.method = "GET" /\ res.mensaje = "application/json"
    /\ Len(res.rows) = 2
    /\ res.rows[1].id = 3
    /\ res.rows[2].id = 2
    /\ ~overlapped
    /\ res.rows[1].fecha > res.rows[2].fecha

\* C13: a row keeps the ticket and the fecha it has, from step to step and
\* whatever the step is (an update of it, a creation, a deletion of another
\* row, under any interleaving), as long as the table holds a row with its id;
\* no deletion renumbers the rows that remain.
C13_LabelAndFechaFixed ==
    [][\A t \in turnos : \A u \in turnos' :
          u.id = t.id => /\ u.ticket = t.ticket
                         /\ u.fecha = t.fecha
                         /\ u.id_usuario = t.id_usuario]_vars

\* The second ticket has outlived the deletion of the first and an update.
C13_Witness ==
    /\ res.method = "PUT" /\ res.status = 200
    /\ turnos = {res.rows[1]}
    /\ res.rows[1].id = 2
    /\ res.rows[1].ticket = <<"T", "-", "0", "0", "0", "2">>
    /\ now > res.rows[1].fecha

\* C14: in a non-interleaved execution without DELETE, whatever POST /turno
\* re-requests and PUTs it contains, the labels stored are exactly T-0001 ..
\* T-n for the n rows created, no two rows share a label, and the k-th row
\* created (k-th by id and by fecha) carries the label number k.
C14_DenseLabels ==
    /\ {t.ticket : t \in turnos} = {FourDigitLabel(k) : k \in 1..Cardinality(turnos)}
    /\ \A a \in turnos : \A b \in turnos : a.ticket = b.ticket => a = b
    /\ \A t \in turnos :
          /\ LabelNumber(t.ticket) = Cardinality({u \in turnos : u.fecha <= t.fecha})
          /\ LabelNumber(t.ticket) = Cardinality({u \in turnos : u.id <= t.id})

\* u1, u2 and u3 were created in this order, the first row was updated since,
\* and a re-request of u1 has just been answered with T-0001.
C14_Witness ==
    /\ Cardinality(turnos) = 3
    /\ \E a \in turnos : \E b \in turnos : \E c \in turnos :
          /\ a.id_usuario = "u1" /\ a.ticket = <<"T", "-", "0", "0", "0", "1">>
          /\ b.id_usuario = "u2" /\ b.ticket = <<"T", "-", "0", "0", "0", "2">>
          /\ c.id_usuario = "u3" /\ c.ticket = <<"T", "-", "0", "0", "0", "3">>
          /\ a.nombre = "Bob" /\ b.nombre = "Ann"
    /\ res.method = "POST" /\ res.mensaje = "Ya tienes un turno asignado"
    /\ res.rows[1].ticket = <<"T", "-", "0", "0", "0", "1">>

\* C15: in a non-interleaved execution of POST /turno, PUT /turno/:id and
\* DELETE /turno/:id, no two rows held at the same time carry the same ticket.
C15_LabelUnique ==
    \A a \in turnos : \A b \in turnos : a.ticket = b.ticket => a.id = b.id

\* C16: whatever the interleaving of POST /turno, PUT /turno/:id and
\* DELETE /turno/:id, and whichever fields their bodies lack or leave empty,
\* every row of the table has a non-empty id_usuario, nombre and solicitud.
C16_NonEmptyFields ==
    \A t \in turnos :
        /\ {"id_usuario", "nombre", "solicitud"} \subseteq DOMAIN t
        /\ t.id_usuario # ""
        /\ t.nombre # ""
        /\ t.solicitud # ""

\* A creation with a field missing or empty has just been refused while
\* another creation is about to insert and the table holds an updated row.
C16_Witness ==
    /\ res.method = "POST" /\ res.status = 400
    /\ \E c \in Clients : pc[c] = "insert"
    /\ \E t \in turnos : t.id_usuario = "u1" /\ t.nombre = "Bob" /\ t.solicitud = "Q2"
    /\ \E c \in Clients : pc[c] = "insert" /\ reqBody[c].nombre = "Ann"

\* C17: GET /turnos and GET /turno/:id/pdf, answered 200 or 404, leave the
\* table, its count, the sequence, the clock and every request in flight as
\* they were, so every query a POST, PUT or DELETE runs afterwards (lookup by
\* id_usuario, count, lookup by id, the UNIQUE check) returns what it would
\* have returned before.
C17_ReadOnly ==
    [][res'.method = "GET"
        => /\ turnos' = turnos
           /\ Cardinality(turnos') = Cardinality(turnos)
           /\ UNCHANGED <<serial, now, pc, reqBody, nuevoTicket, tx, overlapped>>
           /\ \A u \in UserIds :
                 /\ SelectByUsuario(u)' = SelectByUsuario(u)
                 /\ UniqueViolation(u)' = UniqueViolation(u)
           /\ \A id \in ParamIds(MaxSerial) : SelectById(id)' = SelectById(id)]_vars

\* A receipt has just been rendered for a stored row while a creation that
\* has computed its label is about to insert.
C17_Witness ==
    /\ res.method = "GET" /\ res.status = 200 /\ res.mensaje = "application/pdf"
    /\ res.rows[1] \in turnos
    /\ \E c \in Clients : pc[c] = "insert" /\ nuevoTicket[c] = <<"T", "-", "0", "0", "0", "2">>

\* The handler of c returns in this step.
C18_Returns(c) == pc[c] # "idle" /\ pc'[c] = "idle"

\* The step answers the POST /turno of c with the ticket the table holds.
C18_Existing ==
    /\ res'.status = 200
    /\ res'.mensaje = "Ya tienes un turno asignado"
    /\ turnos' = turnos
    /\ \E t \in turnos : res'.rows = <<TurnoJson(t)>>

\* The step answers it with the ticket it has just stored.
C18_Created ==
    /\ res'.status = 200
    /\ res'.mensaje = "Turno asignado correctamente"
    /\ \E t \in turnos' : /\ t \notin turnos
                           /\ turnos' = turnos \cup {t}
                           /\ res'.rows = <<TurnoJson(t)>>

\* A response to a POST /turno is sent in the step that ends the request and
\* in no other: 400 at once and nothing touched, otherwise by a handler that
\* returns; a handler that goes on sends nothing.
C18_OneResponse ==
    /\ \A c \in Clients : (pc'[c] # "idle" /\ pc'[c] # pc[c]) => res' = NoResponse
    /\ (res'.method = "POST" /\ res'.status = 400)
         => UNCHANGED <<turnos, serial, now, pc, reqBody, nuevoTicket, tx, overlapped>>
    /\ (res'.method = "POST" /\ res'.status # 400)
         => \E c \in Clients : C18_Returns(c)

\* Every handler started returns.
C18_Terminates == \A c \in Clients : (pc[c] # "idle") ~> (pc[c] = "idle")

\* C18: every POST /turno gets exactly one outcome, in the step that ends it:
\* 400 at once, or when its handler returns the stored ticket, the ticket just
\* created, or 500; every handler started returns, provided every query it
\* awaits returns or fails; and a 500 leaves the table as it was.
C18_Original ==
    /\ [][/\ \A c \in Clients :
                C18_Returns(c)
                => /\ res'.method = "POST"
                   /\ \/ C18_Existing
                      \/ C18_Created
                      \/ /\ res'.status = 500
                         /\ res'.rows = <<>>
                         /\ turnos' = turnos
           /\ C18_OneResponse]_vars
    /\ C18_Terminates

\* C18, amended: as above, but only a 500 after a failed lookup or count is
\* known to leave the table as it was; a 500 after a failed INSERT leaves it
\* as it was or with the one row that INSERT stored (its id_usuario, nombre,
\* solicitud and label), and every other row as it was.
C18_Outcome ==
    /\ [][/\ \A c \in Clients :
                C18_Returns(c)
                => /\ res'.method = "POST"
                   /\ \/ C18_Existing
                      \/ C18_Created
                      \/ /\ res'.status = 500
                         /\ res'.rows = <<>>
                         /\ \/ turnos' = turnos
                            \/ /\ pc[c] = "drawn"
                               /\ \E t \in turnos' :
                                     /\ t \notin turnos
                                     /\ turnos' = turnos \cup {t}
                                     /\ t.id_usuario = reqBody[c].id_usuario
                                     /\ t.nombre = reqBody[c].nombre
                                     /\ t.solicitud = reqBody[c].solicitud
                                     /\ t.ticket = nuevoTicket[c]
           /\ C18_OneResponse]_vars
    /\ C18_Terminates

\* A creation has just been answered 500 and its row is stored: the only
\* INSERT ever tried was executed and its result never arrived.
C18_Witness ==
    /\ res.method = "POST" /\ res.status = 500
    /\ serial = 1
    /\ \E t \in turnos : t.id = 1 /\ t.ticket = <<"T", "-", "0", "0", "0", "1">>

====
